---- MODULE Spec2Model ----
(***************************************************************************)
(* HeapedCache (src/heapedcache.go): a fixed-capacity cache made of a map  *)
(* from key to *HeapedCacheItem and a slice of the same pointers that is   *)
(* kept as a min-heap on Refreshed by Go's container/heap.  Every public   *)
(* method runs under t.mu with a deferred Unlock, so one call is one       *)
(* atomic step; a call that panics (nil dereference, index out of range)   *)
(* stops where it panics, keeps the writes it has already made and         *)
(* releases the mutex.                                                     *)
(***************************************************************************)
EXTENDS Integers, Sequences, FiniteSets, TLC

\* ---------------------------------------------------------------- bounds
NumKeys == 3
NumVals == 2
MaxCapacity == 2
MaxTime == 2
MaxPanics == 2
NumWideKeys == 5
WideCapacity == 4
NumGoroutines == 2
NumConcKeys == 2

Keys == 1..NumKeys          \* values of TId
WideKeys == 1..NumWideKeys
Vals == 1..NumVals          \* non-nil *TObj pointers
Nil == 0                    \* the nil pointer (of *TObj and of *HeapedCacheItem)
Goroutines == 1..NumGoroutines
ConcKeys == 1..NumConcKeys      \* the keys goroutines use

VARIABLES
    maxRows,      \* HeapedCache.maxRows
    mapItems,     \* HeapedCache.mapItems: the keys present -> address of the item
    sliceItems,   \* HeapedCache.sliceItems: sequence of addresses (or Nil)
    items,        \* the HeapedCacheItem records in use, by address (1, 2, ...)
    now,          \* the last reading time.Now() gave
    panics,       \* how many calls have panicked (and were recovered by the caller)
    last,         \* the last call: its name, arguments, result, whether it panicked
    hist,         \* the calls so far, while they are a fill followed by pops
    drain,        \* the current streak of consecutive Pop/PopWithRefreshed calls
    mu,           \* HeapedCache.mu: the goroutine that holds it, or 0
    pc,           \* where each goroutine is: idle, in t.mu.Lock(), or past it
    fill          \* the calls so far, while they are GetOrAdd loads followed by pops

vars == <<maxRows, mapItems, sliceItems, items, now, panics, last, hist, drain,
          mu, pc, fill>>

\* The goroutines' side of the state.
gvars == <<mu, pc, fill>>

\* ------------------------------------------------------- Go's primitives
\* Go's integer division truncates toward zero.
GoDiv(a, b) == IF a >= 0 THEN a \div b ELSE -((-a) \div b)

\* (*h)[i] with Go's 0-based index.
At(h, i) == h[i + 1]
InRange(h, i) == i >= 0 /\ i < Len(h)

\* Go's map: t.mapItems[id] is nil for a key that is not present.
MapGet(m, id) == IF id \in DOMAIN m THEN m[id] ELSE Nil
MapSet(m, id, x) == [k \in DOMAIN m \cup {id} |-> IF k = id THEN x ELSE m[k]]
MapDelete(m, id) == [k \in DOMAIN m \ {id} |-> m[k]]

\* The cache while a call runs: the map m, the slice h, the records it and
\* whether the call has panicked.
Cache(m, h, it) == [m |-> m, h |-> h, it |-> it, panic |-> FALSE]
Panic(c) == [c EXCEPT !.panic = TRUE]

\* v named in Op: LET with v evaluated once.
Bind(v, Op(_)) == Op(v)

\* ------------------------------------------------ HeapedCacheItems methods
\* Less evaluates (*h)[i].Refreshed and (*h)[j].Refreshed: it panics on an
\* index out of range and on a nil slot.
LessPanics(c, i, j) ==
    \/ ~InRange(c.h, i)
    \/ ~InRange(c.h, j)
    \/ At(c.h, i) = Nil
    \/ At(c.h, j) = Nil

\* Less with the comparison turned round (> 0 for < 0).
LessNewestFirst(c, i, j) == c.it[At(c.h, i)].Refreshed > c.it[At(c.h, j)].Refreshed

\* Less that also holds of equal stamps (<= 0 for < 0).
LessOrEqual(c, i, j) == c.it[At(c.h, i)].Refreshed <= c.it[At(c.h, j)].Refreshed

\* Less: (*h)[i].Refreshed.Compare((*h)[j].Refreshed) < 0.
Less(c, i, j) == c.it[At(c.h, i)].Refreshed < c.it[At(c.h, j)].Refreshed

\* Swap: the two slots are exchanged first, then each moved record's index
\* is written; a nil slot panics at the write of its index.
Swap(c, i, j) ==
    IF i = j THEN c
    ELSE IF ~InRange(c.h, i) \/ ~InRange(c.h, j) THEN Panic(c)
    ELSE Bind([c EXCEPT !.h = [c.h EXCEPT ![i + 1] = c.h[j + 1],
                                          ![j + 1] = c.h[i + 1]]],
              LAMBDA c1 :
                  IF At(c1.h, i) = Nil THEN Panic(c1)
                  ELSE IF At(c1.h, j) = Nil
                  THEN Panic([c1 EXCEPT !.it[At(c1.h, i)].index = i])
                  ELSE [c1 EXCEPT !.it[At(c1.h, i)].index = i,
                                  !.it[At(c1.h, j)].index = j])

\* Push appends.
ItemsPush(c, x) == [c EXCEPT !.h = Append(c.h, x)]

\* Pop takes the last slot, clears it, sets the item's index to -1 and
\* shrinks the slice.  Result: the cache and the item taken.
ItemsPop(c) ==
    LET n == Len(c.h) IN
    IF n = 0 THEN [c |-> Panic(c), item |-> Nil]
    ELSE IF At(c.h, n - 1) = Nil THEN [c |-> Panic(c), item |-> Nil]
    ELSE [c |-> [c EXCEPT !.it[At(c.h, n - 1)].index = -1,
                          !.h = SubSeq(c.h, 1, n - 1)],
          item |-> At(c.h, n - 1)]

\* ---------------------------------------------------------- container/heap
RECURSIVE up(_, _)
up(c, j) ==
    LET i == GoDiv(j - 1, 2) IN
    IF i = j THEN c
    ELSE IF LessPanics(c, j, i) THEN Panic(c)
    ELSE IF ~Less(c, j, i) THEN c
    ELSE Bind(Swap(c, i, j), LAMBDA c1 : IF c1.panic THEN c1 ELSE up(c1, i))

\* The loop of heap.down from slot i; result: the cache and the slot reached.
RECURSIVE downLoop(_, _, _)
downLoop(c, i, n) ==
    LET j1 == 2 * i + 1
        j2 == j1 + 1
    IN  IF j1 >= n \/ j1 < 0 THEN [c |-> c, i |-> i]
        ELSE IF j2 < n /\ LessPanics(c, j2, j1) THEN [c |-> Panic(c), i |-> i]
        ELSE Bind(IF j2 < n /\ Less(c, j2, j1) THEN j2 ELSE j1,
                  LAMBDA j :
                      IF LessPanics(c, j, i) THEN [c |-> Panic(c), i |-> i]
                      ELSE IF ~Less(c, j, i) THEN [c |-> c, i |-> i]
                      ELSE Bind(Swap(c, i, j),
                                LAMBDA c1 : IF c1.panic THEN [c |-> c1, i |-> i]
                                            ELSE downLoop(c1, j, n)))

\* heap.down: result .moved is its boolean result i > i0.
down(c, i0, n) ==
    Bind(downLoop(c, i0, n), LAMBDA r : [c |-> r.c, moved |-> r.i > i0])

\* heap.Push: h.Push(x), then up from the last slot.
heapPush(c, x) ==
    Bind(ItemsPush(c, x), LAMBDA c1 : up(c1, Len(c1.h) - 1))

\* heap.Pop: Swap(0, n), down(0, n), then h.Pop().
heapPop(c) ==
    Bind(Swap(c, 0, Len(c.h) - 1),
         LAMBDA c1 :
             IF c1.panic THEN [c |-> c1, item |-> Nil]
             ELSE Bind(down(c1, 0, Len(c.h) - 1),
                       LAMBDA d : IF d.c.panic THEN [c |-> d.c, item |-> Nil]
                                  ELSE ItemsPop(d.c)))

\* heap.Fix: down from slot i, and up when down did not move the item.
heapFix(c, i) ==
    Bind(down(c, i, Len(c.h)),
         LAMBDA d : IF d.c.panic THEN d.c
                    ELSE IF ~d.moved THEN up(d.c, i)
                    ELSE d.c)

\* ------------------------------------------------------------ HeapedCache
\* What a removed item held, as the caller of pop sees it.
Info(e) == [Id |-> e.Id, Refreshed |-> e.Refreshed, obj |-> e.obj]

\* Addresses in use: those the map or the slice holds.
Used(c) == ({c.m[k] : k \in DOMAIN c.m} \cup {c.h[i] : i \in 1..Len(c.h)}) \ {Nil}
Min(S) == CHOOSE x \in S : \A y \in S : x <= y
\* A set of at most one element as a sequence.
SetToSeq1(S) == IF S = {} THEN <<>> ELSE <<CHOOSE x \in S : TRUE>>

\* &HeapedCacheItem{...}: a fresh address (addresses are not observable; the
\* one numbered like the key is taken when it is free).
NewRef(c, id) ==
    IF id \notin DOMAIN c.it THEN id
    ELSE Min((1..(Cardinality(DOMAIN c.it) + 1)) \ DOMAIN c.it)

\* popWithRefreshed without its delete(t.mapItems, item.Id).
popWithRefreshedKeepsKey(c) ==
    Bind(heapPop(c),
         LAMBDA r :
             IF r.c.panic
             THEN [c |-> r.c, obj |-> Nil, refreshed |-> 0, removed |-> {}]
             ELSE [c |-> r.c,
                   obj |-> r.c.it[r.item].obj,
                   refreshed |-> r.c.it[r.item].Refreshed,
                   removed |-> {Info(r.c.it[r.item])}])

\* popWithRefreshed: heap.Pop, then delete(t.mapItems, item.Id); the result is
\* item.obj and item.Refreshed (removed: the item taken out, for the record).
popWithRefreshed(c) ==
    Bind(heapPop(c),
         LAMBDA r :
             IF r.c.panic
             THEN [c |-> r.c, obj |-> Nil, refreshed |-> 0, removed |-> {}]
             ELSE [c |-> [r.c EXCEPT !.m = MapDelete(@, r.c.it[r.item].Id)],
                   obj |-> r.c.it[r.item].obj,
                   refreshed |-> r.c.it[r.item].Refreshed,
                   removed |-> {Info(r.c.it[r.item])}])

\* pop: heap.Pop, then delete(t.mapItems, item.Id); the result is item.obj.
pop(c) ==
    Bind(heapPop(c),
         LAMBDA r :
             IF r.c.panic
             THEN [c |-> r.c, obj |-> Nil, removed |-> {}]
             ELSE [c |-> [r.c EXCEPT !.m = MapDelete(@, r.c.it[r.item].Id)],
                   obj |-> r.c.it[r.item].obj,
                   removed |-> {Info(r.c.it[r.item])}])

\* The overflow test off by one (>= for >).
OverflowsAtCapacity(c) == Len(c.h) >= maxRows

\* len(t.sliceItems) > t.maxRows.
Overflows(c) == Len(c.h) > maxRows

\* The insertion of the insert path of push: the new item is put in the map
\* and pushed on the heap (the cache between heap.Push and the overflow test).
insertNew(c, id, item, t) ==
    Bind(NewRef(c, id),
         LAMBDA newItem :
             heapPush([c EXCEPT !.it = MapSet(@, newItem,
                                          [Id |-> id, index |-> Len(c.h),
                                           Refreshed |-> t, obj |-> item]),
                                !.m = MapSet(@, id, newItem)],
                      newItem))

\* The insert path of push: the insertion; when the slice is then longer than
\* maxRows, pop.
pushNew(c, id, item, t) ==
    Bind(insertNew(c, id, item, t),
         LAMBDA c2 :
             IF c2.panic THEN [c |-> c2, obj |-> Nil, removed |-> {}]
             ELSE IF Overflows(c2)
             THEN Bind(pop(c2),
                       LAMBDA p : [c |-> p.c,
                                   obj |-> IF p.c.panic THEN Nil ELSE item,
                                   removed |-> p.removed])
             ELSE [c |-> c2, obj |-> item, removed |-> {}])

\* The update path without findItem.obj = item.
pushUpdateKeepsObj(c, findItem, item, t) ==
    Bind(heapFix([c EXCEPT !.it[findItem].Refreshed = t], c.it[findItem].index),
         LAMBDA c2 : [c |-> c2, obj |-> IF c2.panic THEN Nil ELSE item,
                      removed |-> {}])

\* The update path of push: obj and Refreshed are overwritten, then heap.Fix
\* at the item's index.
pushUpdate(c, findItem, item, t) ==
    Bind(heapFix([c EXCEPT !.it[findItem].obj = item,
                           !.it[findItem].Refreshed = t],
                 c.it[findItem].index),
         LAMBDA c2 : [c |-> c2, obj |-> IF c2.panic THEN Nil ELSE item,
                      removed |-> {}])

\* push without the test of item against nil.
pushUnchecked(c, id, item, t) ==
    IF MapGet(c.m, id) = Nil THEN pushNew(c, id, item, t)
    ELSE pushUpdate(c, MapGet(c.m, id), item, t)

\* push(id, item), t being what time.Now() returns.
push(c, id, item, t) ==
    IF item = Nil THEN [c |-> c, obj |-> Nil, removed |-> {}]
    ELSE IF MapGet(c.m, id) = Nil THEN pushNew(c, id, item, t)
    ELSE pushUpdate(c, MapGet(c.m, id), item, t)

\* Get(id) between Lock and Unlock.
get(c, id) ==
    LET item == MapGet(c.m, id) IN
    [c |-> c, obj |-> IF item = Nil THEN Nil ELSE c.it[item].obj]

\* Len() between Lock and Unlock: len(t.mapItems).
mapLen(c) == [c |-> c, n |-> Cardinality(DOMAIN c.m)]

\* GetOrAdd without the look-up: fn is called and its result pushed whether
\* or not id is present.
getOrAddAlwaysLoads(c, id, result, t) ==
    IF result = Nil
    THEN [c |-> c, obj |-> Nil, removed |-> {}, loaded |-> TRUE]
    ELSE Bind(push(c, id, result, t),
              LAMBDA r : [c |-> r.c, obj |-> r.obj, removed |-> r.removed,
                          loaded |-> TRUE])

\* GetOrAdd(id, fn) between Lock and Unlock, result being what fn(id)
\* returns when it is called and t what time.Now() returns.
getOrAdd(c, id, result, t) ==
    LET findItem == MapGet(c.m, id) IN
    IF findItem = Nil
    THEN IF result = Nil
         THEN [c |-> c, obj |-> Nil, removed |-> {}, loaded |-> TRUE]
         ELSE Bind(push(c, id, result, t),
                   LAMBDA r : [c |-> r.c, obj |-> r.obj, removed |-> r.removed,
                               loaded |-> TRUE])
    ELSE [c |-> c, obj |-> c.it[findItem].obj, removed |-> {}, loaded |-> FALSE]

\* The removal of findItem from the slice in Remove: Swap with the last slot,
\* the last slot set to nil, heap.Fix at findItem.index, then the slice cut.
removeFromSlice(c, findItem) ==
    Bind(Swap(c, c.it[findItem].index, Len(c.h) - 1),
         LAMBDA c1 :
             IF c1.panic THEN c1
             ELSE IF Len(c1.h) = 0 THEN Panic(c1)
             ELSE Bind(heapFix([c1 EXCEPT !.h[Len(c1.h)] = Nil],
                               c1.it[findItem].index),
                       LAMBDA c3 :
                           IF c3.panic THEN c3
                           ELSE [c3 EXCEPT !.h = SubSeq(c3.h, 1, Len(c3.h) - 1)]))

\* Remove of a key that is present: the item leaves the slice, then the map.
removePresent(c, id, findItem) ==
    Bind(removeFromSlice(c, findItem),
         LAMBDA c3 :
             IF c3.panic THEN [c |-> c3, ok |-> FALSE]
             ELSE [c |-> [c3 EXCEPT !.m = MapDelete(@, id)], ok |-> TRUE])

\* Remove without the test of findItem against nil: findItem.index of an
\* absent key is a nil dereference.
removeUnchecked(c, id) ==
    IF MapGet(c.m, id) = Nil THEN [c |-> Panic(c), ok |-> FALSE]
    ELSE removePresent(c, id, MapGet(c.m, id))

\* Remove(id) between Lock and Unlock.
remove(c, id) ==
    IF MapGet(c.m, id) = Nil THEN [c |-> c, ok |-> FALSE]
    ELSE removePresent(c, id, MapGet(c.m, id))

\* ------------------------------------------------------- the public calls
\* The cache as a call finds it.
Cur == Cache(mapItems, sliceItems, items)

\* len(t.mapItems) and the items the map holds.
LiveKeys == DOMAIN mapItems
MapLen == mapLen(Cur).n
LiveInfos == {Info(items[mapItems[k]]) : k \in LiveKeys}

\* What time.Now() may return: the clock never runs backwards and may
\* return the value it returned before.
Clock == {t \in {now, now + 1} : t <= MaxTime}

\* The record of a call.
Call(op, id, arg) ==
    [op |-> op, id |-> id, arg |-> arg, panicked |-> FALSE, obj |-> Nil,
     ok |-> FALSE, n |-> 0, refreshed |-> 0, removed |-> {}, loaded |-> FALSE]

NoDrain == [active |-> FALSE, start |-> {}, out |-> <<>>, calls |-> 0, failedAt |-> 0]
NoHist == [phase |-> "void", pushed |-> <<>>, popped |-> <<>>]

\* A call ends: the cache is left as c, and records nothing refers to are
\* forgotten.
Leave(c) ==
    /\ c.panic => panics < MaxPanics
    /\ panics' = IF c.panic THEN panics + 1 ELSE panics
    /\ mapItems' = c.m
    /\ sliceItems' = c.h
    /\ items' = [r \in Used(c) |-> c.it[r]]

\* The fill history after Push(id, item) stamped t: it goes on while fresh
\* keys with non-nil values are pushed.
HistPush(id, item, t) ==
    IF /\ hist.phase = "fill"
       /\ item # Nil
       /\ \A i \in 1..Len(hist.pushed) : hist.pushed[i].Id # id
    THEN [hist EXCEPT !.pushed = Append(@, [Id |-> id, Refreshed |-> t, obj |-> item])]
    ELSE NoHist

\* The fill history after a pop with result r: the pops following the fill
\* are recorded up to the first one that panics.
HistPop(r) ==
    IF hist.phase \in {"fill", "drain"}
    THEN [hist EXCEPT !.phase = IF r.c.panic THEN "failed" ELSE "drain",
                      !.popped = @ \o SetToSeq1(r.removed)]
    ELSE NoHist

\* The streak of consecutive pops after a pop with result r.
DrainPop(r) ==
    [active |-> TRUE,
     start |-> IF drain.active THEN drain.start ELSE LiveInfos,
     out |-> drain.out \o SetToSeq1(r.removed),
     calls |-> drain.calls + 1,
     failedAt |-> IF drain.failedAt = 0 /\ r.c.panic THEN drain.calls + 1
                  ELSE drain.failedAt]

\* A goroutine that is in no call.
Idle == [at |-> "idle", op |-> "", id |-> Nil, arg |-> Nil]

NoFill == [phase |-> "void", added |-> {}, popped |-> <<>>, failed |-> FALSE, by |-> {}]

\* No goroutine has called anything yet.
InitGoroutines ==
    /\ mu = 0
    /\ pc = [g \in Goroutines |-> Idle]
    /\ fill = [NoFill EXCEPT !.phase = "fill"]

Init ==
    /\ maxRows \in 0..MaxCapacity
    /\ mapItems = <<>>
    /\ sliceItems = <<>>
    /\ items = <<>>
    /\ now = 0
    /\ panics = 0
    /\ last = Call("NewHeapedCache", Nil, Nil)
    /\ hist = [phase |-> "fill", pushed |-> <<>>, popped |-> <<>>]
    /\ drain = NoDrain
    /\ InitGoroutines

PushCall(id, item) ==
    \E t \in Clock :
        \E r \in {push(Cur, id, item, t)} :
        /\ item = Nil => t = now
        /\ Leave(r.c)
        /\ now' = t
        /\ last' = [Call("Push", id, item) EXCEPT !.panicked = r.c.panic,
                                                 !.obj = r.obj,
                                                 !.removed = r.removed]
        /\ hist' = HistPush(id, item, t)
        /\ drain' = NoDrain
        /\ UNCHANGED maxRows

\* fn is called only on a miss and time.Now() only when fn's result is
\* pushed: the unused inputs are fixed.
GetOrAddCall(id, result) ==
    \E t \in Clock :
        \E r \in {getOrAdd(Cur, id, result, t)} :
            /\ ~(r.loaded /\ result # Nil) => t = now
            /\ ~r.loaded => result = Nil
            /\ Leave(r.c)
            /\ now' = t
            /\ last' = [Call("GetOrAdd", id, result) EXCEPT !.panicked = r.c.panic,
                                                           !.obj = r.obj,
                                                           !.removed = r.removed,
                                                           !.loaded = r.loaded]
            /\ hist' = NoHist
            /\ drain' = NoDrain
            /\ UNCHANGED maxRows

GetCall(id) ==
    \E r \in {get(Cur, id)} :
    /\ Leave(r.c)
    /\ last' = [Call("Get", id, Nil) EXCEPT !.obj = r.obj]
    /\ drain' = NoDrain
    /\ UNCHANGED <<maxRows, now, hist>>

LenCall ==
    \E r \in {mapLen(Cur)} :
    /\ Leave(r.c)
    /\ last' = [Call("Len", Nil, Nil) EXCEPT !.n = r.n]
    /\ drain' = NoDrain
    /\ UNCHANGED <<maxRows, now, hist>>

RemoveCall(id) ==
    \E r \in {remove(Cur, id)} :
    /\ Leave(r.c)
    /\ last' = [Call("Remove", id, Nil) EXCEPT !.panicked = r.c.panic, !.ok = r.ok]
    /\ hist' = NoHist
    /\ drain' = NoDrain
    /\ UNCHANGED <<maxRows, now>>

PopCall ==
    \E r \in {pop(Cur)} :
    /\ Leave(r.c)
    /\ last' = [Call("Pop", Nil, Nil) EXCEPT !.panicked = r.c.panic,
                                            !.obj = r.obj,
                                            !.removed = r.removed]
    /\ hist' = HistPop(r)
    /\ drain' = DrainPop(r)
    /\ UNCHANGED <<maxRows, now>>

PopWithRefreshedCall ==
    \E r \in {popWithRefreshed(Cur)} :
    /\ Leave(r.c)
    /\ last' = [Call("PopWithRefreshed", Nil, Nil) EXCEPT !.panicked = r.c.panic,
                                                         !.obj = r.obj,
                                                         !.refreshed = r.refreshed,
                                                         !.removed = r.removed]
    /\ hist' = HistPop(r)
    /\ drain' = DrainPop(r)
    /\ UNCHANGED <<maxRows, now>>

\* The calls of a caller that is alone: no other goroutine uses the cache.
Push(id, item) == PushCall(id, item) /\ UNCHANGED gvars
GetOrAdd(id, result) == GetOrAddCall(id, result) /\ UNCHANGED gvars
Get(id) == GetCall(id) /\ UNCHANGED gvars
CacheLen == LenCall /\ UNCHANGED gvars
Remove(id) == RemoveCall(id) /\ UNCHANGED gvars
Pop == PopCall /\ UNCHANGED gvars
PopWithRefreshed == PopWithRefreshedCall /\ UNCHANGED gvars

Next ==
    \/ \E id \in Keys, item \in Vals \cup {Nil} : Push(id, item)
    \/ \E id \in Keys, result \in Vals \cup {Nil} : GetOrAdd(id, result)
    \/ \E id \in Keys : Get(id)
    \/ CacheLen
    \/ \E id \in Keys : Remove(id)
    \/ Pop
    \/ PopWithRefreshed

Spec == Init /\ [][Next]_vars

\* A larger cache under fewer kinds of call: Push always of the smallest key
\* that is not present, with one value; Remove of any key; Pop.
InitWide ==
    /\ maxRows = WideCapacity
    /\ mapItems = <<>>
    /\ sliceItems = <<>>
    /\ items = <<>>
    /\ now = 0
    /\ panics = 0
    /\ last = Call("NewHeapedCache", Nil, Nil)
    /\ hist = [phase |-> "fill", pushed |-> <<>>, popped |-> <<>>]
    /\ drain = NoDrain
    /\ InitGoroutines

PushNew ==
    /\ WideKeys \ LiveKeys # {}
    /\ Push(Min(WideKeys \ LiveKeys), 1)

NextWide ==
    \/ PushNew
    \/ \E id \in WideKeys : Remove(id)
    \/ Pop

SpecWide == InitWide /\ [][NextWide]_vars

\* ------------------------------------------------------------ goroutines
\* The calls a goroutine may make: method, key, value.
Calls ==
    {<<"Push", k, v>> : k \in ConcKeys, v \in Vals}
    \cup {<<op, k, Nil>> : op \in {"GetOrAdd", "Get", "Remove"}, k \in ConcKeys}
    \cup {<<op, Nil, Nil>> : op \in {"Len", "Pop", "PopWithRefreshed"}}

\* fill after goroutine g's call, recorded in last', has ended: GetOrAdd calls
\* that load fresh keys, then PopWithRefreshed calls, as many as keys were
\* loaded; Get and Len may come in between.
FillAfter(g) ==
    IF fill.phase = "void" \/ last'.op \in {"Get", "Len"} THEN fill
    ELSE IF /\ last'.op = "GetOrAdd"
            /\ fill.phase = "fill"
            /\ last'.loaded
            /\ last'.arg # Nil
    THEN [fill EXCEPT !.added = @ \cup {[Id |-> last'.id, obj |-> last'.arg]},
                      !.failed = @ \/ last'.panicked,
                      !.by = @ \cup {g}]
    ELSE IF /\ last'.op = "PopWithRefreshed"
            /\ Len(fill.popped) < Cardinality(fill.added)
    THEN [fill EXCEPT !.phase = "drain",
                      !.popped = Append(@, [obj |-> last'.obj,
                                            removed |-> last'.removed]),
                      !.failed = @ \/ last'.panicked,
                      !.by = @ \cup {g}]
    ELSE NoFill

\* Goroutine g calls a method and reaches t.mu.Lock().  What it calls, and
\* with which arguments, has no effect before the mutex is taken and is
\* recorded then.
Enter(g) ==
    /\ pc[g].at = "idle"
    /\ pc' = [pc EXCEPT ![g].at = "lock"]
    /\ UNCHANGED <<maxRows, mapItems, sliceItems, items, now, panics, last, hist,
                   drain, mu, fill>>

\* t.mu.Lock() returns in goroutine g, which is in a call of op(id, arg).
Lock(g, op, id, arg) ==
    /\ pc[g].at = "lock"
    /\ mu = 0
    /\ mu' = g
    /\ pc' = [pc EXCEPT ![g] = [at |-> "body", op |-> op, id |-> id, arg |-> arg]]
    /\ UNCHANGED <<maxRows, mapItems, sliceItems, items, now, panics, last, hist,
                   drain, fill>>

\* Goroutine g holds the mutex in a call of op.
Inside(g, op) == mu = g /\ pc[g].at = "body" /\ pc[g].op = op

\* t.mu.Unlock() not deferred: a call that panics keeps the mutex.
UnlockOnReturn(g) ==
    /\ mu' = IF last'.panicked THEN mu ELSE 0
    /\ pc' = [pc EXCEPT ![g] = Idle]
    /\ fill' = FillAfter(g)

\* The deferred t.mu.Unlock() of goroutine g's call, and its return (or its
\* panic, which the caller recovers).
Unlock(g) ==
    /\ mu' = 0
    /\ pc' = [pc EXCEPT ![g] = Idle]
    /\ fill' = FillAfter(g)

\* The bodies of the calls, from Lock to the deferred Unlock.  The loader of
\* GetOrAdd runs under the mutex and its result is an input of the body.
GoPush(g) == Inside(g, "Push") /\ PushCall(pc[g].id, pc[g].arg) /\ Unlock(g)
GoGetOrAdd(g) ==
    /\ Inside(g, "GetOrAdd")
    /\ \E result \in Vals \cup {Nil} : GetOrAddCall(pc[g].id, result)
    /\ Unlock(g)
GoGet(g) == Inside(g, "Get") /\ GetCall(pc[g].id) /\ Unlock(g)
GoLen(g) == Inside(g, "Len") /\ LenCall /\ Unlock(g)
GoRemove(g) == Inside(g, "Remove") /\ RemoveCall(pc[g].id) /\ Unlock(g)
GoPop(g) == Inside(g, "Pop") /\ PopCall /\ Unlock(g)
GoPopWithRefreshed(g) ==
    Inside(g, "PopWithRefreshed") /\ PopWithRefreshedCall /\ Unlock(g)

InitConc ==
    /\ maxRows \in 0..MaxCapacity
    /\ mapItems = <<>>
    /\ sliceItems = <<>>
    /\ items = <<>>
    /\ now = 0
    /\ panics = 0
    /\ last = Call("NewHeapedCache", Nil, Nil)
    /\ hist = [phase |-> "fill", pushed |-> <<>>, popped |-> <<>>]
    /\ drain = NoDrain
    /\ InitGoroutines

NextConc ==
    \/ \E g \in Goroutines : Enter(g)
    \/ \E g \in Goroutines : \E c \in Calls : Lock(g, c[1], c[2], c[3])
    \/ \E g \in Goroutines : GoPush(g)
    \/ \E g \in Goroutines : GoGetOrAdd(g)
    \/ \E g \in Goroutines : GoGet(g)
    \/ \E g \in Goroutines : GoLen(g)
    \/ \E g \in Goroutines : GoRemove(g)
    \/ \E g \in Goroutines : GoPop(g)
    \/ \E g \in Goroutines : GoPopWithRefreshed(g)

\* Goroutines calling the cache in any interleaving.
SpecConc == InitConc /\ [][NextConc]_vars

\* Goroutine g's call takes the mutex.
Acquire(g) == \E c \in Calls : Lock(g, c[1], c[2], c[3])

\* A cache of MaxCapacity entries shared by the goroutines, at a time from
\* which the clock returns the same stamp (whether a call ends does not
\* depend on the stamps), with no history recorded.
InitFair ==
    /\ maxRows = MaxCapacity
    /\ mapItems = <<>>
    /\ sliceItems = <<>>
    /\ items = <<>>
    /\ now = MaxTime
    /\ panics = 0
    /\ last = Call("NewHeapedCache", Nil, Nil)
    /\ hist = NoHist
    /\ drain = NoDrain
    /\ mu = 0
    /\ pc = [g \in Goroutines |-> Idle]
    /\ fill = NoFill

\* Fair scheduling: a goroutine that holds the mutex goes on running (of the
\* bodies only the one of the call it is in is ever enabled), and a goroutine
\* waiting in Lock gets the mutex if it is free again and again (sync.Mutex
\* hands the mutex to a waiter that has waited long: starvation mode).
\* Whether a goroutine calls the cache at all is left open.
Fairness ==
    \A g \in Goroutines :
        /\ WF_vars(GoPush(g))
        /\ WF_vars(GoGetOrAdd(g))
        /\ WF_vars(GoGet(g))
        /\ WF_vars(GoLen(g))
        /\ WF_vars(GoRemove(g))
        /\ WF_vars(GoPop(g))
        /\ WF_vars(GoPopWithRefreshed(g))
        /\ SF_vars(Acquire(g))

SpecConcFair == InitFair /\ [][NextConc]_vars /\ Fairness


\* ----------------------------------------------------------------- claims
\* The last call returned (it did not panic).
Returned == ~last.panicked

\* What Get(k) returns now.
GetObj(k) == get(Cur, k).obj

\* What Get(k) returns after the step.
GetObjAfter(k) == get(Cache(mapItems', sliceItems', items'), k).obj

\* The items of a sequence of item records.
Range(q) == {q[i] : i \in 1..Len(q)}

\* The Refreshed of the records of q never decrease / always increase.
NonDecreasing(q) == \A i \in 1..(Len(q) - 1) : q[i].Refreshed <= q[i + 1].Refreshed
Increasing(q) == \A i \in 1..(Len(q) - 1) : q[i].Refreshed < q[i + 1].Refreshed

\* C1: capacity bound.  For a cache built with maxRows >= 1, Len() is at most
\* maxRows after every call that returns, in any sequence of Push, GetOrAdd,
\* Get, Remove, Pop, PopWithRefreshed and Len calls.
C1_CapacityBound == (maxRows >= 1 /\ Returned) => MapLen <= maxRows

\* C2: oldest-first removal.  Whenever the overflow eviction inside
\* Push/GetOrAdd, or Pop/PopWithRefreshed, removes an entry, no entry that is
\* live at that moment (the one just inserted included) has a Refreshed
\* strictly smaller than the removed entry's.
C2_OldestFirst ==
    \A e \in last.removed : \A f \in LiveInfos : f.Refreshed >= e.Refreshed

\* The entries that survive the fill recorded in hist: the last maxRows pushed.
Survivors ==
    LET n == Len(hist.pushed) IN
    IF n > maxRows THEN SubSeq(hist.pushed, n - maxRows + 1, n) ELSE hist.pushed

\* C3: pushing N > maxRows distinct keys, each with a strictly larger stamp
\* than the one before, into an empty cache leaves Len() = maxRows with exactly
\* the last maxRows keys live (Get of every earlier key is nil), and the Pop
\* calls that follow return those survivors in the order they were pushed.
C3_OverflowKeepsLast ==
    (/\ hist.phase \in {"fill", "drain", "failed"}
     /\ Len(hist.pushed) > maxRows
     /\ Increasing(hist.pushed))
    => /\ hist.phase = "fill" =>
            /\ Returned
            /\ MapLen = maxRows
            /\ LiveInfos = Range(Survivors)
            /\ \A i \in 1..(Len(hist.pushed) - maxRows) : GetObj(hist.pushed[i].Id) = Nil
       /\ Len(hist.popped) <= maxRows
       /\ hist.popped = SubSeq(Survivors, 1, Len(hist.popped))
       /\ hist.phase = "drain" =>
            LiveInfos = Range(SubSeq(Survivors, Len(hist.popped) + 1, maxRows))
       /\ hist.phase = "failed" => hist.popped = Survivors

C3_Witness ==
    /\ hist.phase = "drain"
    /\ maxRows >= 2
    /\ Len(hist.pushed) > maxRows
    /\ Increasing(hist.pushed)
    /\ hist.popped = Survivors

\* C4: no eviction below capacity.  Pushing n <= maxRows distinct keys with
\* non-nil values into an empty cache evicts nothing; afterwards Len() = n and
\* Get(k) returns the value pushed for k, for every pushed key k.
C4_NoEvictionBelowCapacity ==
    (hist.phase = "fill" /\ Len(hist.pushed) <= maxRows)
    => /\ Returned
       /\ last.removed = {}
       /\ MapLen = Len(hist.pushed)
       /\ \A i \in 1..Len(hist.pushed) : GetObj(hist.pushed[i].Id) = hist.pushed[i].obj

C4_Witness ==
    /\ hist.phase = "fill"
    /\ last.op = "Push"
    /\ maxRows >= 2
    /\ Len(hist.pushed) = maxRows
    /\ \E i, j \in 1..Len(hist.pushed) : hist.pushed[i].obj # hist.pushed[j].obj

\* The step is a call of Push(k, v2) with v2 non-nil and k live before it.
UpdateStep == last'.op = "Push" /\ last'.arg # Nil /\ last'.id \in LiveKeys

\* C5: identity after update.  Push(k, v2) with non-nil v2 on a cache in which
\* k is live leaves Len() unchanged, removes no other key, and afterwards
\* Get(k) returns v2.
C5_IdentityAfterUpdate ==
    [][UpdateStep => /\ MapLen' = MapLen
                     /\ LiveKeys' = LiveKeys
                     /\ GetObjAfter(last'.id) = last'.arg
                     /\ \A k \in LiveKeys \ {last'.id} : GetObj(k)' = GetObj(k)]_vars

\* An update that replaced the value of a key with another value.
C5_Witness ==
    /\ last.op = "Push"
    /\ Returned
    /\ last.arg # Nil
    /\ hist.phase = "void"
    /\ MapLen >= 2
    /\ GetObj(last.id) = last.arg
    /\ \E k \in LiveKeys : items[mapItems[k]].Refreshed < items[mapItems[last.id]].Refreshed

\* The step is a read: Get, Len, or GetOrAdd of a key that is present.
ReadStep ==
    \/ last'.op \in {"Get", "Len"}
    \/ last'.op = "GetOrAdd" /\ last'.id \in LiveKeys

\* C6: reads do not extend life.  Get(k), Len() and GetOrAdd on a present key
\* leave the index, the heap array and every entry's stamp and heap position
\* unchanged, and GetOrAdd does not call the loader.
C6_ReadsChangeNothing ==
    [][ReadStep => /\ UNCHANGED <<mapItems, sliceItems, items>>
                   /\ ~last'.loaded
                   /\ ~last'.panicked]_vars

\* A Get of a live key that is not the newest entry, in a full cache.
C6_Witness ==
    /\ last.op = "Get"
    /\ GetObj(last.id) # Nil
    /\ last.obj = GetObj(last.id)
    /\ maxRows >= 2
    /\ MapLen = maxRows
    /\ \E k \in LiveKeys : items[mapItems[k]].Refreshed > items[mapItems[last.id]].Refreshed

\* The step is a call of Remove(k) with k live before it.
RemovePresentStep == last'.op = "Remove" /\ last'.id \in LiveKeys

\* C7: Remove of a present key.  For a live key k at any heap position,
\* Remove(k) returns true; afterwards Get(k) is nil, Len() is one less, every
\* other live key is still retrievable with its value, and a Remove(k)
\* repeated at once returns false.
C7_RemovePresent ==
    [][RemovePresentStep => /\ last'.ok
                            /\ ~last'.panicked
                            /\ GetObjAfter(last'.id) = Nil
                            /\ MapLen' = MapLen - 1
                            /\ \A k \in LiveKeys \ {last'.id} : GetObj(k)' = GetObj(k)
                            /\ ~remove(Cache(mapItems', sliceItems', items'), last'.id).ok]_vars

\* The step is a call of Remove(k) with k not live before it.
RemoveAbsentStep == last'.op = "Remove" /\ last'.id \notin LiveKeys

\* C8: Remove of an absent key returns false and leaves the index, the heap
\* array, all stamps and positions, and Len() unchanged.
C8_RemoveAbsent ==
    [][RemoveAbsentStep => /\ ~last'.ok
                           /\ ~last'.panicked
                           /\ MapLen' = MapLen
                           /\ UNCHANGED <<mapItems, sliceItems, items>>]_vars

\* A Remove of an absent key on a cache that holds other keys.
C8_Witness ==
    /\ last.op = "Remove"
    /\ ~last.ok
    /\ Returned
    /\ MapLen >= 2
    /\ panics = 0

\* The step is a call of Pop or PopWithRefreshed on an empty cache.
PopEmptyStep == last'.op \in {"Pop", "PopWithRefreshed"} /\ MapLen = 0 /\ sliceItems = <<>>

\* C9: Pop() or PopWithRefreshed() on an empty cache returns nil instead of
\* failing, and leaves the cache empty.
C9_PopEmptyReturnsNil ==
    [][PopEmptyStep => /\ ~last'.panicked
                       /\ last'.obj = Nil
                       /\ MapLen' = 0
                       /\ sliceItems' = <<>>]_vars

\* C10: drain.  From any reachable state with Len() = n, n consecutive calls
\* of Pop/PopWithRefreshed empty the cache and return every entry that was
\* live at the start exactly once, with non-decreasing Refreshed.
C10_Drain ==
    LET n == Cardinality(drain.start) IN
    (drain.active /\ drain.calls <= n)
    => /\ drain.failedAt = 0
       /\ Len(drain.out) = drain.calls
       /\ Range(drain.out) \subseteq drain.start
       /\ Cardinality(Range(drain.out)) = Len(drain.out)
       /\ NonDecreasing(drain.out)
       /\ drain.calls = n => MapLen = 0

\* The step is a call of Push with a nil value, or of GetOrAdd of an absent
\* key whose loader returns nil.
NilStep ==
    \/ last'.op = "Push" /\ last'.arg = Nil
    \/ last'.op = "GetOrAdd" /\ last'.id \notin LiveKeys /\ last'.arg = Nil

\* C12: a nil value is never stored.  Push(k, nil), and GetOrAdd(k, fn) of an
\* absent k whose loader returns nil, return nil and leave the index, the heap
\* array, every entry's value, stamp and position, and Len() unchanged.
C12_NilNeverStored ==
    [][NilStep => /\ last'.obj = Nil
                  /\ ~last'.panicked
                  /\ UNCHANGED <<mapItems, sliceItems, items>>
                  /\ MapLen' = MapLen]_vars

\* A Push(k, nil) of a live key k, which keeps its value.
C12_Witness ==
    /\ last.op = "Push"
    /\ last.arg = Nil
    /\ Returned
    /\ last.id \in LiveKeys
    /\ GetObj(last.id) # Nil
    /\ MapLen >= 2

\* C17: all-or-nothing on failure.  A public call that ends in a panic leaves
\* the index, the heap array and every entry's index field as they were
\* before the call.
C17_AllOrNothing ==
    [][last'.panicked => UNCHANGED <<mapItems, sliceItems, items>>]_vars

\* The addresses the index holds.
MapRefs == {mapItems[k] : k \in LiveKeys}

\* C18: index/heap agreement (invariant 1).  After every public call the
\* entries of mapItems are the entries of sliceItems, every entry is in
\* exactly one slot, no slot is nil, and Len() is the length of the slice.
C18_IndexHeapAgreement ==
    /\ MapRefs = Range(sliceItems)
    /\ Nil \notin Range(sliceItems)
    /\ Cardinality(Range(sliceItems)) = Len(sliceItems)
    /\ MapLen = Len(sliceItems)

\* C19: position tracking (invariant 2).  After every public call every live
\* entry e satisfies sliceItems[e.index] == e.
C19_PositionTracking ==
    \A k \in LiveKeys :
        /\ InRange(sliceItems, items[mapItems[k]].index)
        /\ At(sliceItems, items[mapItems[k]].index) = mapItems[k]

\* C20: heap order (invariant 3).  After every public call, for every
\* non-root slot i the entry at slot (i-1)/2 has a Refreshed less than or
\* equal to that of the entry at slot i (stated of the slots that hold
\* entries).
C20_HeapOrder ==
    \A i \in 1..(Len(sliceItems) - 1) :
        (At(sliceItems, i) # Nil /\ At(sliceItems, GoDiv(i - 1, 2)) # Nil)
        => items[At(sliceItems, GoDiv(i - 1, 2))].Refreshed
               <= items[At(sliceItems, i)].Refreshed

\* C14: least recently accessed.  On overflow the entry removed is the least
\* recently accessed one, a Get counting as an access.  Stated of two
\* consecutive calls: when a Get has just found key a, every other live key
\* was last written or read before that Get, so an eviction by the next call
\* does not remove a while another key that was live survives.
C14_LeastRecentlyAccessed ==
    [][(/\ last.op = "Get"
        /\ last.obj # Nil
        /\ last'.op \in {"Push", "GetOrAdd"})
       => \A e \in last'.removed :
              e.Id = last.id => (LiveKeys \cap LiveKeys') \ {last.id} = {}]_vars

\* C15: stream-buffer ordering.  Messages pushed once each under fresh keys,
\* at most maxRows of them, with stamps from a clock that never runs backwards
\* and may repeat a value, are popped in the order they were pushed.
C15_StreamBufferOrder ==
    (hist.phase \in {"fill", "drain", "failed"} /\ Len(hist.pushed) <= maxRows)
    => /\ Len(hist.popped) <= Len(hist.pushed)
       /\ \A i \in 1..Len(hist.popped) : hist.popped[i] = hist.pushed[i]

\* C11: loader exactly-once.  Goroutines that call GetOrAdd(k, fn) for an
\* absent key k, fn returning a non-nil value and maxRows >= 1, run fn once
\* in total and all receive the value stored for k.  The mutex admits the
\* calls one at a time, and the claim is stated of each call as it is
\* admitted: on an absent key fn is run, the caller receives fn's value and
\* that value is stored; on a present key fn is not run and the caller
\* receives the stored value, which stays stored.
C11_LoaderExactlyOnce ==
    [][(/\ last'.op = "GetOrAdd"
        /\ maxRows >= 1
        /\ last'.loaded => last'.arg # Nil)
       => /\ ~last'.panicked
          /\ last'.loaded <=> last'.id \notin LiveKeys
          /\ last'.loaded => last'.obj = last'.arg
          /\ last'.id \in LiveKeys => last'.obj = GetObj(last'.id)
          /\ GetObjAfter(last'.id) = last'.obj]_vars

\* The keys loaded during the fill recorded in fill.
FillKeys == {a.Id : a \in fill.added}

\* C13: concurrent fill and drain.  Goroutines calling GetOrAdd on distinct
\* absent keys with non-nil loaders, at most maxRows keys in all, leave every
\* key live and Len() equal to the number of keys; the PopWithRefreshed calls
\* goroutines make afterwards, Len() in all, each return a non-nil value of a
\* distinct loaded entry, and Len() ends at 0.
C13_ConcurrentFillDrain ==
    (fill.phase \in {"fill", "drain"} /\ Cardinality(fill.added) <= maxRows)
    => /\ ~fill.failed
       /\ Cardinality(FillKeys) = Cardinality(fill.added)
       /\ fill.phase = "fill" =>
            /\ LiveKeys = FillKeys
            /\ MapLen = Cardinality(fill.added)
            /\ \A a \in fill.added : GetObj(a.Id) = a.obj
       /\ \A i \in 1..Len(fill.popped) :
            /\ fill.popped[i].obj # Nil
            /\ \E e \in fill.popped[i].removed :
                   [Id |-> e.Id, obj |-> fill.popped[i].obj] \in fill.added
            /\ \A j \in 1..Len(fill.popped) :
                   j # i => fill.popped[j].removed # fill.popped[i].removed
       /\ fill.phase = "drain" =>
            MapLen = Cardinality(fill.added) - Len(fill.popped)

\* Two goroutines have loaded two keys and popped both.
C13_Witness ==
    /\ fill.phase = "drain"
    /\ fill.by = Goroutines
    /\ Cardinality(fill.added) = 2
    /\ Len(fill.popped) = 2
    /\ MapLen = 0
    /\ \E g \in Goroutines : pc[g].at = "lock"

\* C16: atomicity under the single lock.  At most one goroutine is inside a
\* cache call at a time, and whenever the mutex is not held the index and the
\* heap array hold the same entries, every entry's index is its slot, and the
\* heap order holds, also after a call that ended by panicking.
C16_Atomicity ==
    /\ Cardinality({g \in Goroutines : pc[g].at = "body"}) <= 1
    /\ mu = 0 =>
          /\ MapRefs = Range(sliceItems)
          /\ Cardinality(Range(sliceItems)) = Len(sliceItems)
          /\ \A i \in 1..Len(sliceItems) :
                /\ sliceItems[i] # Nil
                /\ items[sliceItems[i]].index = i - 1
                /\ i > 1 => items[sliceItems[GoDiv(i - 2, 2) + 1]].Refreshed
                                <= items[sliceItems[i]].Refreshed

\* A call that inserts: Push of an absent key with a non-nil value, or
\* GetOrAdd of an absent key whose loader returns a non-nil value.
InsertStep ==
    /\ last'.op \in {"Push", "GetOrAdd"}
    /\ last'.id \notin LiveKeys
    /\ last'.arg # Nil

\* C21: transient overflow is at most one.  The heap array and the index each
\* hold at most maxRows entries between calls and at most maxRows + 1 between
\* the insertion and the eviction inside a Push or GetOrAdd (the only place
\* where a call lets them grow), so the maxRows + 1 slots NewHeapedCache
\* reserves are never exceeded.
C21_TransientOverflow ==
    [][/\ Len(sliceItems') <= maxRows
       /\ MapLen' <= maxRows
       /\ InsertStep =>
            \A t \in Clock :
                /\ Len(insertNew(Cur, last'.id, last'.arg, t).h) <= maxRows + 1
                /\ mapLen(insertNew(Cur, last'.id, last'.arg, t)).n <= maxRows + 1]_vars

\* C22: a new key never evicts itself.  With maxRows >= 1 and a clock that
\* never runs backwards (equal stamps included), a Push(k, v) or loading
\* GetOrAdd of an absent key k into a full cache that returns has returned v
\* and evicted an entry other than k; k is live and Get(k) returns v.
C22_NewKeyNotEvicted ==
    [][(InsertStep /\ maxRows >= 1 /\ MapLen >= maxRows /\ ~last'.panicked)
       => /\ last'.obj = last'.arg
          /\ last'.removed # {}
          /\ \A e \in last'.removed : e.Id # last'.id
          /\ last'.id \in LiveKeys'
          /\ GetObjAfter(last'.id) = last'.arg]_vars

\* A new key has come into a full cache of two entries and evicted an entry
\* that carries the same stamp as the new one.
C22_Witness ==
    /\ last.op \in {"Push", "GetOrAdd"}
    /\ Returned
    /\ maxRows = 2
    /\ MapLen = 2
    /\ last.id \in LiveKeys
    /\ GetObj(last.id) = last.arg
    /\ \E e \in last.removed :
          /\ e.Id # last.id
          /\ e.Refreshed = items[mapItems[last.id]].Refreshed

\* C23: no operation blocks forever.  Every call releases the mutex on every
\* exit path, a panic included: the mutex is held only by a goroutine inside
\* a call, and under fair scheduling every call a goroutine has started
\* finishes (as long as fewer than MaxPanics calls have panicked, where the
\* model stops).
C23_NoBlocking ==
    /\ [](\A g \in Goroutines : mu = g => pc[g].at = "body")
    /\ \A g \in Goroutines :
          (pc[g].at # "idle") ~> (pc[g].at = "idle" \/ panics = MaxPanics)

\* A call has returned after an earlier call panicked, the mutex is free and
\* a goroutine is waiting for it.
C23_Witness ==
    /\ panics >= 1
    /\ panics < MaxPanics
    /\ last.op = "GetOrAdd"
    /\ Returned
    /\ mu = 0
    /\ \E g \in Goroutines : pc[g].at = "lock"
====
